---- MODULE Spec2Model ----
\* State machine of the Tasks.ai todo list: the App component's state
\* (todos, error), its handlers, the TodoItem controls that
\* reach them, and generateSubtasks of the Gemini service.
EXTENDS FiniteSets, Integers, Sequences, TLC

VARIABLES
  todos,      \* App.tsx:8   useState<Todo[]>
  error,      \* App.tsx:21  useState<string | null>(null)
  apiKey,     \* geminiService.ts:5  module constant, fixed for a run
  inflight,   \* suspended handleGenerateSubtasks calls (App.tsx:94, the await)
  nextId,     \* number of the next subtask identifier to be drawn (App.tsx:97)
  calls,      \* number of generateSubtasks calls issued so far
  adds,       \* number of todo identifiers drawn so far (App.tsx:34)
  crashed,    \* the App's render threw (App.tsx:124): nothing is on screen
  last        \* the handler that ran last, with its arguments

vars == <<todos, error, apiKey, inflight, nextId, calls, adds, crashed, last>>

\* ---------------------------------------------------------------- bounds
\* todos created in a run
MaxTodos == 1
\* generateSubtasks calls issued in a run (two, so that a retry and a second
\* request on the same task are within reach)
MaxCalls == 2

\* ------------------------------------------------------------ strings
\* A string is a sequence of characters; longer fixed pieces of a template
\* are kept as one element.
\* What String.prototype.trim strips: the ECMAScript WhiteSpace characters
\* (tab, vertical tab, form feed, space, no-break space, byte order mark and
\* the space separators of Unicode) and LineTerminator characters (line feed,
\* carriage return, line and paragraph separator). Those TLA+ has no escape
\* for are named by their code point.
WS ==
  { "\t", "U+000B", "\f", " ", "U+00A0", "U+FEFF",
    "U+1680", "U+2000", "U+2001", "U+2002", "U+2003", "U+2004", "U+2005",
    "U+2006", "U+2007", "U+2008", "U+2009", "U+200A", "U+202F", "U+205F",
    "U+3000",
    "\n", "\r", "U+2028", "U+2029" }

RECURSIVE TrimStart(_)
TrimStart(s) ==
  IF s # <<>> /\ Head(s) \in WS THEN TrimStart(Tail(s)) ELSE s

RECURSIVE TrimEnd(_)
TrimEnd(s) ==
  IF s # <<>> /\ s[Len(s)] \in WS THEN TrimEnd(SubSeq(s, 1, Len(s) - 1)) ELSE s

trim(s) == TrimEnd(TrimStart(s))

\* What the user may type into the input box.
Inputs == { <<>>, <<" ", "\t">>, <<"a">>, <<"\t", "a", "\n">> }

NoError == "null"
ErrorMsg == "Failed to generate subtasks. Please try again or check your API key."

\* -------------------------------------------------------------- todos
\* crypto.randomUUID (App.tsx:34, 97) returns a value it never returned before,
\* and the program only compares identifiers for equality: the n-th one drawn
\* for a todo and the n-th one drawn for a subtask are named by what they
\* were drawn for and n.
TodoUUID(n) == <<"todo", n>>
SubtaskUUID(n) == <<"subtask", n>>

TodoIds(ts) == { ts[i].id : i \in DOMAIN ts }
SubtaskIds(t) == { t.subtasks[j].id : j \in DOMAIN t.subtasks }
AllIds(ts) == TodoIds(ts) \cup UNION { SubtaskIds(ts[i]) : i \in DOMAIN ts }

HasTodo(ts, id) == id \in TodoIds(ts)
TodoOf(ts, id) == ts[CHOOSE i \in DOMAIN ts : ts[i].id = id]

every(subs) == \A j \in DOMAIN subs : subs[j].completed

\* App.tsx:33-39. isGenerating is absent from a new todo; absent and false
\* are read alike everywhere (TodoItem.tsx:65), so it is kept as FALSE.
NewTodo(id, text) ==
  [ id |-> id, text |-> text, completed |-> FALSE, isExpanded |-> FALSE,
    subtasks |-> <<>>, isGenerating |-> FALSE ]

\* Mutant: the new todo is put behind the others
AddFront_Appends(ts, newTodo) == ts \o <<newTodo>>

\* App.tsx:41
AddFront(ts, newTodo) == <<newTodo>> \o ts

\* What a handler hands back to its caller: the handlers of App.tsx:45-86
\* return nothing, whatever they found
VoidResult == "undefined"

\* Mutant: marking a task complete does not mark its subtasks
ToggleTodoMap_NoCascade(ts, id) ==
  [ i \in DOMAIN ts |->
      IF ts[i].id = id THEN [ ts[i] EXCEPT !.completed = ~ts[i].completed ]
      ELSE ts[i] ]

\* App.tsx:46-58
ToggleTodoMap(ts, id) ==
  [ i \in DOMAIN ts |->
      IF ts[i].id = id
      THEN LET newCompleted == ~ts[i].completed
               newSubtasks ==
                 IF newCompleted
                 THEN [ j \in DOMAIN ts[i].subtasks |->
                          [ ts[i].subtasks[j] EXCEPT !.completed = TRUE ] ]
                 ELSE ts[i].subtasks
           IN [ ts[i] EXCEPT !.completed = newCompleted, !.subtasks = newSubtasks ]
      ELSE ts[i] ]

\* Mutant: the todo is removed by position, splice(findIndex(...), 1), and
\* a position of -1 takes the last todo away
DeleteFilter_Splice(ts, id) ==
  IF \E i \in DOMAIN ts : ts[i].id = id THEN SelectSeq(ts, LAMBDA t : t.id # id)
  ELSE IF ts = <<>> THEN ts
  ELSE SubSeq(ts, 1, Len(ts) - 1)

\* App.tsx:62
DeleteFilter(ts, id) == SelectSeq(ts, LAMBDA t : t.id # id)

\* The subtasks of t with the one named subtaskId flipped (App.tsx:69-71)
FlipSubtask(t, subtaskId) ==
  [ j \in DOMAIN t.subtasks |->
      IF t.subtasks[j].id = subtaskId
      THEN [ t.subtasks[j] EXCEPT !.completed = ~t.subtasks[j].completed ]
      ELSE t.subtasks[j] ]

\* Mutant: the parent's completed flag is not recomputed
ToggleSubtaskMap_NoRecompute(ts, todoId, subtaskId) ==
  [ i \in DOMAIN ts |->
      IF ts[i].id # todoId THEN ts[i]
      ELSE [ ts[i] EXCEPT !.subtasks = FlipSubtask(ts[i], subtaskId) ] ]

\* Mutant: the parent is completed when all subtasks are, never un-completed
ToggleSubtaskMap_OnlyCompletes(ts, todoId, subtaskId) ==
  [ i \in DOMAIN ts |->
      IF ts[i].id # todoId THEN ts[i]
      ELSE LET newSubtasks == FlipSubtask(ts[i], subtaskId)
           IN [ ts[i] EXCEPT !.subtasks = newSubtasks,
                             !.completed = @ \/ every(newSubtasks) ] ]

\* App.tsx:66-81
ToggleSubtaskMap(ts, todoId, subtaskId) ==
  [ i \in DOMAIN ts |->
      IF ts[i].id # todoId THEN ts[i]
      ELSE LET newSubtasks == FlipSubtask(ts[i], subtaskId)
               allSubComplete == every(newSubtasks)
           IN [ ts[i] EXCEPT !.subtasks = newSubtasks,
                             !.completed = allSubComplete /\ Len(newSubtasks) > 0 ] ]

\* App.tsx:85
ExpandMap(ts, id) ==
  [ i \in DOMAIN ts |->
      IF ts[i].id = id THEN [ ts[i] EXCEPT !.isExpanded = ~ts[i].isExpanded ]
      ELSE ts[i] ]

\* App.tsx:90
SetGeneratingMap(ts, id) ==
  [ i \in DOMAIN ts |->
      IF ts[i].id = id THEN [ ts[i] EXCEPT !.isGenerating = TRUE ] ELSE ts[i] ]

\* Mutant: one id is drawn for the whole batch
NewSubtasks_OneId(texts, firstId) ==
  [ j \in DOMAIN texts |->
      [ id |-> SubtaskUUID(firstId), text |-> texts[j], completed |-> FALSE ] ]

\* App.tsx:96-100: one fresh id per returned text, in order
NewSubtasks(texts, firstId) ==
  [ j \in DOMAIN texts |->
      [ id |-> SubtaskUUID(firstId + j - 1), text |-> texts[j], completed |-> FALSE ] ]

\* Mutant: the subtasks are given to every todo, whatever its id
ApplySubtasksMap_NoIdTest(ts, id, newSubtasks) ==
  [ i \in DOMAIN ts |->
      [ ts[i] EXCEPT !.isGenerating = FALSE, !.isExpanded = TRUE,
                     !.subtasks = newSubtasks ] ]

\* App.tsx:102-110
ApplySubtasksMap(ts, id, newSubtasks) ==
  [ i \in DOMAIN ts |->
      IF ts[i].id # id THEN ts[i]
      ELSE [ ts[i] EXCEPT !.isGenerating = FALSE, !.isExpanded = TRUE,
                          !.subtasks = newSubtasks ] ]

\* Mutant: the catch branch also collapses the task
ClearGeneratingMap_Collapses(ts, id) ==
  [ i \in DOMAIN ts |->
      IF ts[i].id = id
      THEN [ ts[i] EXCEPT !.isGenerating = FALSE, !.isExpanded = FALSE ]
      ELSE ts[i] ]

\* Mutant: the catch branch forgets to reset isGenerating
ClearGeneratingMap_Forgets(ts, id) == ts

\* App.tsx:115
ClearGeneratingMap(ts, id) ==
  [ i \in DOMAIN ts |->
      IF ts[i].id = id THEN [ ts[i] EXCEPT !.isGenerating = FALSE ] ELSE ts[i] ]

\* Mutant: the test of the filter is inverted
ClearCompletedFilter_KeepsCompleted(ts) == SelectSeq(ts, LAMBDA t : t.completed)

\* App.tsx:120
ClearCompletedFilter(ts) == SelectSeq(ts, LAMBDA t : ~t.completed)

\* App.tsx:259-263
FilterType == {"ALL", "ACTIVE", "COMPLETED"}

\* Mutant: the ACTIVE test is missing and falls through to "return true"
filteredTodos_NoActiveTest(ts, filter) ==
  SelectSeq(ts, LAMBDA todo :
    IF filter = "COMPLETED" THEN todo.completed
    ELSE TRUE)

\* App.tsx:124-128: what the list shows under the chosen filter
filteredTodos(ts, filter) ==
  SelectSeq(ts, LAMBDA todo :
    IF filter = "ACTIVE" THEN ~todo.completed
    ELSE IF filter = "COMPLETED" THEN todo.completed
    ELSE TRUE)

\* ------------------------------------------------------- TodoItem controls
\* Mutant: the button is rendered whether or not the task has subtasks
BreakDownRendered_AnyLength(t) == ~t.completed

\* Mutant: the button is rendered for a completed task too
BreakDownRendered_WhenCompleted(t) == Len(t.subtasks) = 0

\* TodoItem.tsx:62: the Break Down button is rendered
BreakDownRendered(t) == Len(t.subtasks) = 0 /\ ~t.completed

\* TodoItem.tsx:65: the rendered button is disabled while generating
BreakDownDisabled(t) == t.isGenerating

\* Mutant: the button is not disabled while generating
CanGenerate_NotDisabled(t) == BreakDownRendered(t)

\* A click reaches onGenerateSubtasks (TodoItem.tsx:62-65)
CanGenerate(t) == BreakDownRendered(t) /\ ~BreakDownDisabled(t)

\* ------------------------------------------------------------ the service
\* The arrays of strings the backend may answer with: none, one, two in
\* either order, and three with a repeated text.
ItemArrays ==
  { <<>>,
    << <<"x">> >>,
    << <<"x">>, <<"y">> >>,
    << <<"y">>, <<"x">> >>,
    << <<"x">>, <<"y">>, <<"x">> >> }

\* What ai.models.generateContent can do (geminiService.ts:24-38): reject
\* (network error, bad credentials, timeout), or resolve with a response whose
\* text is absent or empty, is not JSON, is JSON but no array, or is a JSON
\* array of strings.
RawResponses ==
  [ kind : {"reject", "noText", "malformed", "nonArray"}, items : {<<>>} ]
    \cup [ kind : {"array"}, items : ItemArrays ]

\* geminiService.ts:15: without a key the only event is the 1 s timer
TimerResponse == [ kind |-> "timer", items |-> <<>> ]

ResponsesFor(key) == IF key = "" THEN { TimerResponse } ELSE RawResponses

\* geminiService.ts:16-20
MockSubtasks(taskText) ==
  << <<"Research ">> \o taskText,
     <<"Draft outline for ">> \o taskText,
     <<"Review and finalize ">> \o taskText >>

Returned(v) == [ throws |-> FALSE, value |-> v ]
Thrown == [ throws |-> TRUE, value |-> <<>> ]

\* geminiService.ts:11-47: the settled result of generateSubtasks(taskText)
\* given what the backend did
generateSubtasks(key, taskText, resp) ==
  IF key = "" THEN Returned(MockSubtasks(taskText))
  ELSE CASE resp.kind = "reject"    -> Thrown
         [] resp.kind = "noText"    -> Returned(<<>>)
         [] resp.kind = "malformed" -> Thrown
         [] resp.kind = "nonArray"  -> Returned(<<>>)
         [] OTHER                   -> Returned(resp.items)

\* ---------------------------------------------------------------- actions
Init ==
  /\ todos = <<>>
  /\ error = NoError
  /\ apiKey \in {"", "key"}
  /\ inflight = {}
  /\ nextId = 1
  /\ calls = 0
  /\ adds = 0
  /\ crashed = FALSE
  /\ last = [ op |-> "init" ]

\* App.tsx:29-43  form submit; inputText is what the box holds at that moment
\* (App.tsx:19, 152) and the box is emptied afterwards (App.tsx:42)
handleAddTodo(inputText) ==
  IF trim(inputText) = <<>>
  THEN /\ last' = [ op |-> "add", added |-> FALSE, input |-> inputText ]
       /\ UNCHANGED <<todos, error, apiKey, crashed, inflight, nextId, calls, adds>>
  ELSE /\ todos' = AddFront(todos, NewTodo(TodoUUID(adds + 1), trim(inputText)))
       /\ adds' = adds + 1
       /\ last' = [ op |-> "add", added |-> TRUE, input |-> inputText ]
       /\ UNCHANGED <<error, apiKey, crashed, inflight, nextId, calls>>

\* App.tsx:45-59, reached from TodoItem.tsx:37
handleToggleTodo(id) ==
  /\ todos' = ToggleTodoMap(todos, id)
  /\ last' = [ op |-> "toggle", id |-> id, result |-> VoidResult ]
  /\ UNCHANGED <<error, apiKey, crashed, inflight, nextId, calls, adds>>

\* App.tsx:61-63, reached from TodoItem.tsx:91
handleDeleteTodo(id) ==
  /\ todos' = DeleteFilter(todos, id)
  /\ last' = [ op |-> "delete", id |-> id ]
  /\ UNCHANGED <<error, apiKey, crashed, inflight, nextId, calls, adds>>

\* App.tsx:65-82, reached from TodoItem.tsx:125
handleToggleSubtask(todoId, subtaskId) ==
  /\ todos' = ToggleSubtaskMap(todos, todoId, subtaskId)
  /\ last' = [ op |-> "toggleSubtask", id |-> todoId, sub |-> subtaskId,
                result |-> VoidResult ]
  /\ UNCHANGED <<error, apiKey, crashed, inflight, nextId, calls, adds>>

\* App.tsx:84-86. TodoItem takes the handler as onToggleExpand
\* (TodoItem.tsx:19) and binds it to no element, so no event of the page
\* calls it: it is a step of StoreNext, where the handlers are called
\* directly, and not of Next.
handleExpand(id) ==
  /\ todos' = ExpandMap(todos, id)
  /\ last' = [ op |-> "expand" ]
  /\ UNCHANGED <<error, apiKey, crashed, inflight, nextId, calls, adds>>

\* App.tsx:88-94 up to the await. The handler tests nothing about the todo:
\* it marks it generating and calls the service with the text it was given.
handleGenerateSubtasks(id, text) ==
  /\ calls < MaxCalls
  /\ todos' = SetGeneratingMap(todos, id)
  /\ error' = NoError
  /\ inflight' = inflight \cup { [ id |-> id, text |-> text, call |-> calls + 1 ] }
  /\ calls' = calls + 1
  /\ last' = [ op |-> "generate", id |-> id ]
  /\ UNCHANGED <<apiKey, crashed, nextId, adds>>

\* TodoItem.tsx:62-65: a click on the Break Down button of the todo, which
\* is on screen and enabled, calls the handler with the todo's id and text
ClickBreakDown(id) ==
  /\ HasTodo(todos, id)
  /\ CanGenerate(TodoOf(todos, id))
  /\ handleGenerateSubtasks(id, TodoOf(todos, id).text)

\* App.tsx:94-116 after the await: the call r settles on the response resp
ResolveGeneration(r, resp) ==
  LET out == generateSubtasks(apiKey, r.text, resp)
      newSubtasks == NewSubtasks(out.value, nextId)
  IN /\ r \in inflight
     /\ resp \in ResponsesFor(apiKey)
     /\ inflight' = inflight \ {r}
     /\ IF out.throws
        THEN /\ error' = ErrorMsg
             /\ todos' = ClearGeneratingMap(todos, r.id)
             /\ UNCHANGED nextId
        ELSE /\ nextId' = nextId + Len(out.value)
             /\ todos' = ApplySubtasksMap(todos, r.id, newSubtasks)
             /\ UNCHANGED error
     /\ last' = [ op |-> "resolve", id |-> r.id,
                  kind |-> resp.kind, throws |-> out.throws, texts |-> out.value ]
     /\ UNCHANGED <<apiKey, crashed, calls, adds>>

\* App.tsx:119-121, the button of App.tsx:228-237
handleClearCompleted ==
  /\ \E i \in DOMAIN todos : todos[i].completed
  /\ todos' = ClearCompletedFilter(todos)
  /\ last' = [ op |-> "clear" ]
  /\ UNCHANGED <<error, apiKey, crashed, inflight, nextId, calls, adds>>

\* App.tsx:168-173
DismissError ==
  /\ error # NoError
  /\ error' = NoError
  /\ last' = [ op |-> "dismiss" ]
  /\ UNCHANGED <<todos, apiKey, crashed, inflight, nextId, calls, adds>>

Settle == \E r \in inflight : \E resp \in ResponsesFor(apiKey) : ResolveGeneration(r, resp)

Next ==
  \/ \E v \in Inputs : (trim(v) # <<>> => adds < MaxTodos) /\ handleAddTodo(v)
  \/ \E id \in TodoIds(todos) : handleToggleTodo(id)
  \/ \E id \in TodoIds(todos) : handleDeleteTodo(id)
  \/ \E id \in TodoIds(todos) :
       \E sid \in SubtaskIds(TodoOf(todos, id)) : handleToggleSubtask(id, sid)
  \/ \E id \in TodoIds(todos) : ClickBreakDown(id)
  \/ Settle
  \/ handleClearCompleted
  \/ DismissError

Spec == Init /\ [][Next]_vars

\* The backend settles every call it was sent (success, failure or timeout),
\* and the timer of the keyless path fires.
LiveSpec == Spec /\ \A c \in 1..MaxCalls :
  WF_vars(\E r \in inflight : r.call = c /\ \E resp \in ResponsesFor(apiKey) : ResolveGeneration(r, resp))

\* ------------------------------------------------------- the store, one step
\* The handlers as functions of the store: each is applied once to every
\* store a session can have built up to StoreLen todos, with every argument
\* it can be called with, identifiers no todo has included.

\* todos in a drawn store
StoreLen == 3

\* What a todo of a session looks like, identifiers aside. Not expanded, it
\* has no subtasks: it is new or waiting for its first answer, completed or
\* not. Expanded, an answer has arrived (App.tsx:107): with no subtask, and
\* then it may be waiting again, or with one or two, toggled in the ways
\* handleToggleTodo and handleToggleSubtask allow. A completed todo has its
\* subtasks all open (the answer came after it was completed) or all done.
TodoShapes ==
  { [ completed |-> FALSE, isExpanded |-> FALSE, isGenerating |-> FALSE, subs |-> <<>> ],
    [ completed |-> FALSE, isExpanded |-> FALSE, isGenerating |-> TRUE,  subs |-> <<>> ],
    [ completed |-> TRUE,  isExpanded |-> FALSE, isGenerating |-> FALSE, subs |-> <<>> ],
    [ completed |-> TRUE,  isExpanded |-> FALSE, isGenerating |-> TRUE,  subs |-> <<>> ],
    [ completed |-> FALSE, isExpanded |-> TRUE,  isGenerating |-> FALSE, subs |-> <<>> ],
    [ completed |-> FALSE, isExpanded |-> TRUE,  isGenerating |-> TRUE,  subs |-> <<>> ],
    [ completed |-> TRUE,  isExpanded |-> TRUE,  isGenerating |-> FALSE, subs |-> <<>> ],
    [ completed |-> TRUE,  isExpanded |-> TRUE,  isGenerating |-> TRUE,  subs |-> <<>> ],
    [ completed |-> FALSE, isExpanded |-> TRUE,  isGenerating |-> FALSE, subs |-> <<FALSE>> ],
    [ completed |-> TRUE,  isExpanded |-> TRUE,  isGenerating |-> FALSE, subs |-> <<FALSE>> ],
    [ completed |-> TRUE,  isExpanded |-> TRUE,  isGenerating |-> FALSE, subs |-> <<TRUE>> ],
    [ completed |-> FALSE, isExpanded |-> TRUE,  isGenerating |-> FALSE, subs |-> <<TRUE>> ],
    [ completed |-> FALSE, isExpanded |-> TRUE,  isGenerating |-> FALSE, subs |-> <<FALSE, FALSE>> ],
    [ completed |-> TRUE,  isExpanded |-> TRUE,  isGenerating |-> FALSE, subs |-> <<FALSE, FALSE>> ],
    [ completed |-> FALSE, isExpanded |-> TRUE,  isGenerating |-> FALSE, subs |-> <<TRUE, FALSE>> ],
    [ completed |-> FALSE, isExpanded |-> TRUE,  isGenerating |-> FALSE, subs |-> <<FALSE, TRUE>> ],
    [ completed |-> TRUE,  isExpanded |-> TRUE,  isGenerating |-> FALSE, subs |-> <<TRUE, TRUE>> ],
    [ completed |-> FALSE, isExpanded |-> TRUE,  isGenerating |-> FALSE, subs |-> <<TRUE, TRUE>> ] }

\* The texts the backend answered with, in its order
SubtaskTexts == << <<"x">>, <<"y">> >>

\* The generateSubtasks calls issued for a todo of this shape: one that the
\* success branch answered by expanding it (App.tsx:107), and one it is
\* waiting for
CallsOf(sh) == (IF sh.isExpanded THEN 1 ELSE 0) + (IF sh.isGenerating THEN 1 ELSE 0)

RECURSIVE SubsIn(_)
SubsIn(shs) ==
  IF shs = <<>> THEN 0 ELSE Len(Head(shs).subs) + SubsIn(Tail(shs))

RECURSIVE CallsIn(_)
CallsIn(shs) ==
  IF shs = <<>> THEN 0
  ELSE CallsOf(Head(shs)) + CallsIn(Tail(shs))

\* The todos behind position i were added before it (App.tsx:41)
Older(shs, i) == SubSeq(shs, i + 1, Len(shs))

\* The todo at position i: identifiers are numbered in the order a session
\* that adds the todos and then decomposes them, oldest first, draws them.
StoreTodo(shs, i) ==
  LET sh == shs[i]
      first == SubsIn(Older(shs, i))
  IN [ id |-> TodoUUID(Len(shs) - i + 1), text |-> <<"a">>,
       completed |-> sh.completed, isExpanded |-> sh.isExpanded,
       isGenerating |-> sh.isGenerating,
       subtasks |-> [ j \in 1..Len(sh.subs) |->
                        [ id |-> SubtaskUUID(first + j), text |-> SubtaskTexts[j],
                          completed |-> sh.subs[j] ] ] ]

StoreTodos(shs) == [ i \in 1..Len(shs) |-> StoreTodo(shs, i) ]

\* One suspended call per generating todo (App.tsx:90-94)
StoreInflight(shs) ==
  { [ id |-> TodoUUID(Len(shs) - i + 1), text |-> <<"a">>,
      call |-> CallsIn(Older(shs, i)) + CallsOf(shs[i]) ] :
      i \in { k \in 1..Len(shs) : shs[k].isGenerating } }

StoreInit ==
  \E n \in 0..StoreLen : \E shs \in [1..n -> TodoShapes] :
    /\ todos = StoreTodos(shs)
    /\ error = NoError
    /\ apiKey = "key"
    /\ inflight = StoreInflight(shs)
    /\ nextId = SubsIn(shs) + 1
    /\ calls = CallsIn(shs)
    /\ adds = n
    /\ crashed = FALSE
    /\ last = [ op |-> "init" ]

\* Identifiers that were never drawn
NoSuchTodo == TodoUUID(0)
NoSuchSubtask == SubtaskUUID(0)

\* One handler call on the drawn store, with arguments the page passes and
\* arguments it would not pass (an identifier no todo has, a decomposition
\* of a todo whose button is disabled or not on screen), and then the
\* settling of a call: of a task that the handler call removed, or of any
\* call in flight once handleGenerateSubtasks has been called.
StoreNext ==
  \/ last.op = "init" /\ \E v \in Inputs : handleAddTodo(v)
  \/ last.op = "init" /\ \E id \in TodoIds(todos) \cup {NoSuchTodo} : handleToggleTodo(id)
  \/ last.op = "init" /\ \E id \in TodoIds(todos) \cup {NoSuchTodo} : handleDeleteTodo(id)
  \/ last.op = "init" /\ \E id \in TodoIds(todos) \cup {NoSuchTodo} :
       \E sid \in (IF HasTodo(todos, id) THEN SubtaskIds(TodoOf(todos, id))
                    ELSE AllIds(todos) \ TodoIds(todos)) \cup {NoSuchSubtask} :
         handleToggleSubtask(id, sid)
  \/ last.op = "init" /\ \E id \in TodoIds(todos) : handleExpand(id)
  \/ last.op = "init" /\ \E id \in TodoIds(todos) :
       handleGenerateSubtasks(id, TodoOf(todos, id).text)
  \/ last.op = "init" /\ Settle
  \/ last.op = "init" /\ handleClearCompleted
  \/ last.op \in {"delete", "clear"} /\
       \E r \in inflight : ~HasTodo(todos, r.id) /\
         \E resp \in ResponsesFor(apiKey) : ResolveGeneration(r, resp)
  \/ last.op = "generate" /\ Settle

StoreSpec == StoreInit /\ [][StoreNext]_vars

\* ------------------------------------------------------ reload and restore
\* What localStorage holds under 'gemini-todos' when the page loads: nothing
\* (getItem gives null), the empty string, text JSON.parse rejects, JSON that
\* is no array ({}, null, 42), an array with an element that has no array
\* under subtasks ([1], [null], [{}]), or what the persistence effect wrote.
\* An array of objects that have an array under subtasks and lack other
\* fields of a todo is rendered as it is; no such blob is drawn here.
BlobKinds == {"absent", "empty", "malformed", "nonArray", "noSubtasks", "todos"}

Blob(kind, value) == [ kind |-> kind, value |-> value ]

\* App.tsx:25  JSON.stringify(todos): every own property of every todo and
\* subtask is written, isGenerating included
Stringify(ts) ==
  Blob("todos",
       [ i \in DOMAIN ts |->
           [ id |-> ts[i].id, text |-> ts[i].text, completed |-> ts[i].completed,
             isExpanded |-> ts[i].isExpanded,
             subtasks |-> [ j \in DOMAIN ts[i].subtasks |->
                              [ id |-> ts[i].subtasks[j].id,
                                text |-> ts[i].subtasks[j].text,
                                completed |-> ts[i].subtasks[j].completed ] ],
             isGenerating |-> ts[i].isGenerating ] ])

\* App.tsx:8-18: the initial value of todos. A falsy saved and a throwing
\* JSON.parse give []; whatever JSON.parse returns is taken as it is.
\* For a parsed value that is no list of todos the state holds that value;
\* the model keeps <<>> in todos and RenderThrows tells what becomes of it.
Restore(blob) ==
  IF blob.kind \in {"absent", "empty"} THEN <<>>
  ELSE IF blob.kind = "malformed" THEN <<>>
  ELSE IF blob.kind = "todos" THEN blob.value
  ELSE <<>>

\* The first render with the restored value: todos.filter (App.tsx:124) is no
\* function on a value that is no array, and TodoItem reads
\* todo.subtasks.length (TodoItem.tsx:24) of every element, which throws for
\* an element without an array there. The TypeError is caught nowhere, so
\* React unmounts the App.
RenderThrows(blob) == blob.kind \in {"nonArray", "noSubtasks"}

\* The blobs a first load can find that no run of the program wrote
ForeignBlobs ==
  { Blob(k, <<>>) : k \in {"absent", "empty", "malformed", "nonArray", "noSubtasks"} }

\* App.tsx:6-22: the state after the App is constructed over a stored blob
SessionInit ==
  \E blob \in ForeignBlobs \cup { Stringify(<<>>) } :
    /\ todos = Restore(blob)
    /\ crashed = RenderThrows(blob)
    /\ error = NoError
    /\ apiKey \in {"", "key"}
    /\ inflight = {}
    /\ nextId = 1
    /\ calls = 0
    /\ adds = 0
    /\ last = [ op |-> "init", blob |-> blob.kind ]

\* The page is reloaded. The effect of App.tsx:24-26 has written the todos
\* of the last render, the suspended handlers of the old page are gone with
\* it, and the new App starts from the stored blob (App.tsx:8-22). After a
\* render that threw no effect has run, and the blob is the one that made it
\* throw.
Reload ==
  /\ IF crashed
     THEN UNCHANGED <<todos, crashed>>
     ELSE /\ todos' = Restore(Stringify(todos))
          /\ crashed' = RenderThrows(Stringify(todos))
  /\ inflight' = {}
  /\ error' = NoError
  /\ last' = [ op |-> "reload" ]
  /\ UNCHANGED <<apiKey, nextId, calls, adds>>

\* Nothing is on screen after a render that threw: no handler can be reached
SessionNext ==
  \/ ~crashed /\ Next
  \/ Reload

SessionSpec == SessionInit /\ [][SessionNext]_vars

\* SessionSpec with the service settling every call the page still waits for
LiveSessionSpec == SessionSpec /\ \A c \in 1..MaxCalls :
  WF_vars(\E r \in inflight : r.call = c /\ \E resp \in ResponsesFor(apiKey) : ResolveGeneration(r, resp))

\* ------------------------------------------------------------ properties
InFlightFor(id) == { r \in inflight : r.id = id }

Pending(id) == HasTodo(todos, id) /\ TodoOf(todos, id).isGenerating

\* Every todo identifier a run can draw
IssuedTodoIds == { TodoUUID(n) : n \in 1..MaxTodos }

\* The call r is the one its task is waiting for: the task is in the store,
\* is generating, and no later call was issued for it.
IsCurrentAttempt(r) ==
  /\ HasTodo(todos, r.id)
  /\ TodoOf(todos, r.id).isGenerating
  /\ \A q \in InFlightFor(r.id) : q.call <= r.call

\* ids and texts of a subtask sequence, in order
Shape(subs) == [ j \in DOMAIN subs |-> <<subs[j].id, subs[j].text>> ]

AllDoneImpliesCompleted(t) ==
  (Len(t.subtasks) > 0 /\ every(t.subtasks)) => t.completed

\* The orders in which the elements of S can be visited once each
Orders(S) ==
  { f \in [1..Cardinality(S) -> S] : \A a, b \in DOMAIN f : a # b => f[a] # f[b] }

RECURSIVE ToggleEach(_, _, _)
\* handleToggleSubtask applied to every subtask id of order, one after another
ToggleEach(ts, todoId, order) ==
  IF order = <<>> THEN ts
  ELSE ToggleEach(ToggleSubtaskMap(ts, todoId, Head(order)), todoId, Tail(order))

\* C1: at most one decomposition call is in flight per task, and no step
\* taken while a task is generating issues another call for it.
C1_AtMostOneInFlight ==
  /\ [](\A i \in DOMAIN todos : Cardinality(InFlightFor(todos[i].id)) <= 1)
  /\ [][\A id \in TodoIds(todos) :
          Pending(id) => { r \in inflight' : r.id = id } \subseteq InFlightFor(id)]_vars

\* A generating task whose Break Down button is on screen, with its one call
\* in flight and the call budget of the model not yet used up.
C1_Witness ==
  \E i \in DOMAIN todos :
    /\ todos[i].isGenerating
    /\ BreakDownRendered(todos[i])
    /\ Cardinality(InFlightFor(todos[i].id)) = 1
    /\ calls < MaxCalls
    /\ last.op = "generate" /\ last.id = todos[i].id

\* C2: the settling of a call that is not its task's current pending attempt
\* (the task was removed, is no longer generating, or a later call exists)
\* leaves every task as it was.
C2_StaleResolutionIsDiscarded ==
  [][\A r \in inflight :
       (inflight' = inflight \ {r} /\ ~IsCurrentAttempt(r)) => todos' = todos]_vars

\* C3: a task that is generating is eventually not generating or not in the
\* store, given that the backend settles every call.
C3_NeverPendingForever ==
  \A id \in IssuedTodoIds : Pending(id) ~> ~Pending(id)

\* A task that was generating has been settled by a failure and is idle again.
C3_Witness ==
  /\ last.op = "resolve"
  /\ last.throws
  /\ HasTodo(todos, last.id)
  /\ ~TodoOf(todos, last.id).isGenerating
  /\ inflight = {}

\* The service answered with no item: an empty array, no response text, or
\* JSON that is no array.
ZeroItemAnswer ==
  /\ last.op = "resolve"
  /\ \/ last.kind \in {"noText", "nonArray"}
     \/ last.kind = "array" /\ last.texts = <<>>

\* C4: an answer with zero items is handled as a failure: the task is left
\* with no subtasks and idle, and the error notification is raised.
C4_EmptyAnswerIsFailure ==
  (ZeroItemAnswer /\ HasTodo(todos, last.id)) =>
    LET t == TodoOf(todos, last.id)
    IN /\ t.subtasks = <<>>
       /\ ~t.isGenerating
       /\ error = ErrorMsg

\* C5: once a task has subtasks, no step changes their number, ids, texts or
\* order.
C5_SubtasksSetOnce ==
  [][\A i \in DOMAIN todos : \A k \in DOMAIN todos' :
       (Len(todos[i].subtasks) > 0 /\ todos'[k].id = todos[i].id) =>
         Shape(todos'[k].subtasks) = Shape(todos[i].subtasks)]_vars

\* A task with two subtasks, one of them completed by a subtask toggle.
C5_Witness ==
  /\ last.op = "toggleSubtask"
  /\ HasTodo(todos, last.id)
  /\ LET t == TodoOf(todos, last.id)
     IN /\ Len(t.subtasks) >= 2
        /\ \E j \in DOMAIN t.subtasks : t.subtasks[j].completed
        /\ \E j \in DOMAIN t.subtasks : ~t.subtasks[j].completed

\* C6 as stated: in every state, a task with at least one subtask, all of
\* them completed, is completed.
C6_AllDoneImpliesCompleted ==
  \A i \in DOMAIN todos : AllDoneImpliesCompleted(todos[i])

\* C6 as amended: a state in which a task has all its subtasks completed
\* and is itself not completed is entered only by a direct toggle of that
\* task (which leaves the subtasks as they are, App.tsx:50), and is left by
\* the next toggle of the task or of one of its subtasks; every other step
\* establishes or preserves the property.
C6_BrokenOnlyByToggle ==
  [][\A k \in DOMAIN todos' :
       ~AllDoneImpliesCompleted(todos'[k]) =>
         \/ last'.op = "toggle" /\ last'.id = todos'[k].id
         \/ /\ HasTodo(todos, todos'[k].id)
            /\ ~AllDoneImpliesCompleted(TodoOf(todos, todos'[k].id))
            /\ ~(last'.op = "toggleSubtask" /\ last'.id = todos'[k].id)]_vars

\* Toggling the last open subtask of a task has completed the task.
C6_Witness ==
  /\ last.op = "toggleSubtask"
  /\ HasTodo(todos, last.id)
  /\ LET t == TodoOf(todos, last.id)
     IN Len(t.subtasks) >= 2 /\ every(t.subtasks) /\ t.completed

\* C7: a toggle that turns a task completed leaves all its subtasks
\* completed; a toggle that turns it not completed leaves its subtasks as
\* they were.
C7_ToggleCascadesDownOnly ==
  /\ []((last.op = "toggle" /\ HasTodo(todos, last.id)) =>
          LET t == TodoOf(todos, last.id)
          IN t.completed => every(t.subtasks))
  /\ [][\A k \in DOMAIN todos' :
          (last'.op = "toggle" /\ last'.id = todos'[k].id /\ ~todos'[k].completed) =>
            /\ HasTodo(todos, todos'[k].id)
            /\ todos'[k].subtasks = TodoOf(todos, todos'[k].id).subtasks]_vars

\* A direct toggle has completed a task that has two subtasks.
C7_Witness ==
  /\ last.op = "toggle"
  /\ HasTodo(todos, last.id)
  /\ LET t == TodoOf(todos, last.id)
     IN Len(t.subtasks) >= 2 /\ t.completed

\* C8: right after a subtask toggle, the task is completed exactly when all
\* its subtasks are.
C8_CompletedIsConjunction ==
  (last.op = "toggleSubtask" /\ HasTodo(todos, last.id)) =>
    LET t == TodoOf(todos, last.id)
    IN Len(t.subtasks) > 0 /\ t.completed = every(t.subtasks)

\* A subtask toggle has left a task with an open subtask, hence not
\* completed, although another subtask is completed.
C8_Witness ==
  /\ last.op = "toggleSubtask"
  /\ HasTodo(todos, last.id)
  /\ LET t == TodoOf(todos, last.id)
     IN /\ ~t.completed
        /\ \E j \in DOMAIN t.subtasks : t.subtasks[j].completed
        /\ \E j \in DOMAIN t.subtasks :
             t.subtasks[j].id = last.sub /\ ~t.subtasks[j].completed

\* The service answered a call with a non-empty sequence of texts and the
\* task of the call is in the store.
SuccessAnswer ==
  /\ last.op = "resolve"
  /\ ~last.throws
  /\ Len(last.texts) > 0
  /\ HasTodo(todos, last.id)

\* C9: after a non-empty answer of n texts the task has n subtasks with the
\* texts in the order returned, ids never used before and pairwise distinct,
\* none completed; it is expanded and idle; and toggling each of these
\* subtasks once, in any order, leaves the task completed.
C9_SuccessBuildsSubtasks ==
  /\ [](SuccessAnswer =>
          LET t == TodoOf(todos, last.id)
          IN /\ Len(t.subtasks) = Len(last.texts)
             /\ \A j \in DOMAIN t.subtasks :
                  /\ t.subtasks[j].text = last.texts[j]
                  /\ ~t.subtasks[j].completed
             /\ Cardinality(SubtaskIds(t)) = Len(t.subtasks)
             /\ t.isExpanded
             /\ ~t.isGenerating
             /\ \A order \in Orders(SubtaskIds(t)) :
                  TodoOf(ToggleEach(todos, t.id, order), t.id).completed)
  /\ [][SuccessAnswer' =>
          \A sid \in SubtaskIds(TodoOf(todos', last'.id)) :
            sid \notin AllIds(todos) /\ sid[2] >= nextId]_vars

\* The service answered with two texts, "y" before "x", for a task that had
\* been marked completed while it was generating.
C9_Witness ==
  /\ SuccessAnswer
  /\ last.texts = << <<"y">>, <<"x">> >>
  /\ TodoOf(todos, last.id).completed

\* The service failed (it rejected, or its text was no JSON) for a call whose
\* task is in the store.
FailureAnswer ==
  /\ last.op = "resolve"
  /\ last.throws
  /\ HasTodo(todos, last.id)

\* C10 as stated: after a failure the task has no subtasks and is idle, the
\* error notification is raised, the task's completed and expanded flags are
\* what they were, and the task's Break Down button accepts a new request.
C10_FailureLeavesRetryable ==
  /\ [](FailureAnswer =>
          LET t == TodoOf(todos, last.id)
          IN /\ t.subtasks = <<>>
             /\ ~t.isGenerating
             /\ error = ErrorMsg
             /\ CanGenerate(t))
  /\ [][FailureAnswer' =>
          /\ HasTodo(todos, last'.id)
          /\ TodoOf(todos', last'.id).completed = TodoOf(todos, last'.id).completed
          /\ TodoOf(todos', last'.id).isExpanded = TodoOf(todos, last'.id).isExpanded]_vars

\* C10 as amended: the same, with the new request accepted when the task
\* has not been marked completed in the meantime.
C10_FailureLeavesRetryableUnlessCompleted ==
  /\ [](FailureAnswer =>
          LET t == TodoOf(todos, last.id)
          IN /\ t.subtasks = <<>>
             /\ ~t.isGenerating
             /\ error = ErrorMsg
             /\ (~t.completed => CanGenerate(t)))
  /\ [][FailureAnswer' =>
          /\ HasTodo(todos, last'.id)
          /\ TodoOf(todos', last'.id).completed = TodoOf(todos, last'.id).completed
          /\ TodoOf(todos', last'.id).isExpanded = TodoOf(todos, last'.id).isExpanded]_vars

\* The service failed for a task that is expanded and not completed: the
\* error is shown and the button accepts a retry.
C10_Witness ==
  /\ FailureAnswer
  /\ LET t == TodoOf(todos, last.id)
     IN t.isExpanded /\ ~t.completed /\ CanGenerate(t)
  /\ error = ErrorMsg

\* C11: no step issues a decomposition call for, or sets generating, a task
\* that already has subtasks or is completed: such a task has no Break Down
\* button to click.
C11_NoRequestForDecomposedOrCompleted ==
  [][\A id \in TodoIds(todos) :
       LET t == TodoOf(todos, id)
       IN (Len(t.subtasks) > 0 \/ t.completed) =>
            /\ { r \in inflight' : r.id = id } \subseteq InFlightFor(id)
            /\ (HasTodo(todos', id) /\ ~t.isGenerating) => ~TodoOf(todos', id).isGenerating
            /\ ~CanGenerate(t)]_vars

\* A completed task with no subtasks and nothing pending, while the model
\* could still issue a call: only the completed flag keeps the button away.
C11_Witness ==
  \E i \in DOMAIN todos :
    /\ todos[i].completed
    /\ Len(todos[i].subtasks) = 0
    /\ ~todos[i].isGenerating
    /\ calls < MaxCalls
    /\ last.op = "toggle" /\ last.id = todos[i].id

\* C12: when a call settles, with subtasks or with a failure, for a task
\* that delete or clearCompleted removed while it was pending, the collection
\* stays exactly as it was: the task is not re-created and the remaining
\* tasks and their order are untouched.
C12_ResolutionForRemovedTaskIsDiscarded ==
  [][\A r \in inflight :
       (inflight' = inflight \ {r} /\ ~HasTodo(todos, r.id)) =>
         (todos' = todos /\ ~HasTodo(todos', r.id))]_vars

\* The service has answered with subtasks for a task that is gone, while two
\* or more other tasks remain.
C12_Witness ==
  /\ last.op = "resolve"
  /\ ~last.throws
  /\ last.texts # <<>>
  /\ ~HasTodo(todos, last.id)
  /\ Len(todos) >= 2

\* Where the todo named id stands in ts
PositionOf(ts, id) == CHOOSE i \in DOMAIN ts : ts[i].id = id

\* C13: after clearCompleted the collection holds exactly the todos that were
\* not completed, each with every field as before, in their previous
\* relative order.
C13_ClearKeepsActiveInOrder ==
  [][last'.op = "clear" =>
       LET kept == { i \in DOMAIN todos : ~todos[i].completed }
       IN /\ Len(todos') = Cardinality(kept)
          /\ \A i \in kept : \E k \in DOMAIN todos' : todos'[k] = todos[i]
          /\ \A k \in DOMAIN todos' : ~todos'[k].completed
          /\ \A k1, k2 \in DOMAIN todos' :
               k1 < k2 => PositionOf(todos, todos'[k1].id) < PositionOf(todos, todos'[k2].id)]_vars

\* clearCompleted has removed something and left two or more todos, one of
\* them with subtasks.
C13_Witness ==
  /\ last.op = "clear"
  /\ Len(todos) >= 2
  /\ \E i \in DOMAIN todos : Len(todos[i].subtasks) > 0

\* view lists todos of ts only, each once, in the order ts has them
InOrderOf(view, ts) ==
  /\ \A k \in DOMAIN view : \E i \in DOMAIN ts : ts[i] = view[k]
  /\ \A k1, k2 \in DOMAIN view :
       k1 < k2 => PositionOf(ts, view[k1].id) < PositionOf(ts, view[k2].id)

\* C14: the Active and the Completed view share no todo, together they hold
\* exactly the todos of the All view, and each of the three views lists its
\* todos in the relative order of the collection.
C14_ViewsPartitionInOrder ==
  LET active == filteredTodos(todos, "ACTIVE")
      completed == filteredTodos(todos, "COMPLETED")
      all == filteredTodos(todos, "ALL")
  IN /\ TodoIds(active) \cap TodoIds(completed) = {}
     /\ TodoIds(active) \cup TodoIds(completed) = TodoIds(all)
     /\ Len(active) + Len(completed) = Len(all)
     /\ TodoIds(all) = TodoIds(todos)
     /\ \A f \in FilterType : InOrderOf(filteredTodos(todos, f), todos)

\* A toggle has left two active todos and a completed one between them.
C14_Witness ==
  /\ last.op = "toggle"
  /\ Len(todos) = 3
  /\ ~todos[1].completed /\ todos[2].completed /\ ~todos[3].completed

\* C15: add with a text that is not empty once trimmed puts one new todo at
\* the front: its id is the id of no todo and no subtask of the store, it is
\* not completed, has no subtasks and is not generating, its text is the
\* trimmed input, and the todos that were there follow it unchanged in
\* their order.
C15_AddPutsFreshTodoInFront ==
  [][(last'.op = "add" /\ trim(last'.input) # <<>>) =>
       /\ last'.added
       /\ Len(todos') = Len(todos) + 1
       /\ todos'[1].id \notin AllIds(todos)
       /\ todos'[1].text = trim(last'.input)
       /\ ~todos'[1].completed
       /\ todos'[1].subtasks = <<>>
       /\ ~todos'[1].isGenerating
       /\ { r \in inflight' : r.id = todos'[1].id } = {}
       /\ \A i \in DOMAIN todos : todos'[i + 1] = todos[i]]_vars

\* A text with blanks around it has been added in front of two todos, one
\* of which has subtasks.
C15_Witness ==
  /\ last.op = "add" /\ last.added
  /\ last.input # trim(last.input)
  /\ Len(todos) = 3
  /\ \E i \in 2..3 : Len(todos[i].subtasks) > 0

\* C16: loading the page over a stored blob that is absent, is no JSON, or
\* is JSON but no list of todos starts with an empty collection and a
\* working page on which a todo can be added.
C16_BadBlobRestoresEmpty ==
  (last.op = "init" /\ last.blob # "todos") =>
    /\ todos = <<>>
    /\ ~crashed
    /\ ENABLED (~crashed /\ \E v \in Inputs : handleAddTodo(v))

\* C17: a toggle of a todo id that no todo has, and a toggle of a subtask
\* whose todo id or subtask id resolves to nothing, hand NotFound back to the
\* caller.
C17_UnknownIdIsNotFound ==
  /\ (last.op = "toggle" /\ ~HasTodo(todos, last.id)) => last.result = "NotFound"
  /\ (last.op = "toggleSubtask" /\
        (~HasTodo(todos, last.id) \/ last.sub \notin SubtaskIds(TodoOf(todos, last.id))))
       => last.result = "NotFound"

\* C18: delete takes away the todo with the given id, its subtasks with it,
\* and nothing else: the other todos stay as they were in their order; with
\* an id no todo has the collection is unchanged, and so deleting the same
\* id a second time changes nothing.
C18_DeleteRemovesExactlyOne ==
  [][last'.op = "delete" =>
       LET id == last'.id
           kept == { i \in DOMAIN todos : todos[i].id # id }
       IN /\ ~HasTodo(todos', id)
          /\ Len(todos') = Cardinality(kept)
          /\ \A i \in kept : \E k \in DOMAIN todos' : todos'[k] = todos[i]
          /\ \A k1, k2 \in DOMAIN todos' :
               k1 < k2 => PositionOf(todos, todos'[k1].id) < PositionOf(todos, todos'[k2].id)
          /\ HasTodo(todos, id) => SubtaskIds(TodoOf(todos, id)) \cap AllIds(todos') = {}
          /\ ~HasTodo(todos, id) => todos' = todos
          /\ DeleteFilter(todos', id) = todos']_vars

\* The middle one of three todos has been deleted.
C18_Witness ==
  /\ last.op = "delete"
  /\ Len(todos) = 2
  /\ last.id = TodoUUID(2)
  /\ todos[1].id = TodoUUID(3) /\ todos[2].id = TodoUUID(1)

\* C19: a completed todo has no subtask that is not completed.
C19_CompletedHasNoOpenSubtask ==
  \A i \in DOMAIN todos :
    todos[i].completed => \A j \in DOMAIN todos[i].subtasks : todos[i].subtasks[j].completed

\* C20: every generating todo has a call in flight that will settle it.
C20_GeneratingHasCallInFlight ==
  \A i \in DOMAIN todos : todos[i].isGenerating => InFlightFor(todos[i].id) # {}

====
